---- MODULE Spec2Model ----
(***************************************************************************)
(* rustronomy-fits: the ASCII table codec (AsciiTblParser::decode_tbl and  *)
(* encode_tbl) and the TypedImage accessors, as state machines.            *)
(*                                                                         *)
(* Text is a sequence of bytes (0..255).  A file or a read buffer, which   *)
(* holds whole 2880-byte blocks, is kept as its runs of equal bytes,       *)
(* <<count, byte>>; a row is a slice (buffer, offset, length) of the read  *)
(* buffer, as in the code.  Results are records: [ok |-> TRUE, val |-> v]  *)
(* for Ok(v) and [ok |-> FALSE, err |-> e] for Err(e).                     *)
(***************************************************************************)
EXTENDS Integers, Sequences, FiniteSets, TLC

(* ----------------------------- constants ------------------------------- *)

\* crate::BLOCK_SIZE, the FITS block granularity in bytes.
BLOCK_SIZE == 2880

\* Largest declared row count (rows_in_file) the inputs are drawn from.
MaxRows == 3

\* Largest column length of a hand-built table handed to encode_tbl.
MaxColLen == 2

\* Row widths (chars_in_row) the inputs are drawn from: 1440 packs two rows
\* in a block, 2000 leaves an incomplete chunk at the end of the buffer, and
\* a row of 3000 spans blocks.
RowWidths == {1440, 2000, 3000}

(* ------------------------------ bytes ---------------------------------- *)

Blanks(n) == [i \in 1..n |-> 32]
Zeros(n) == [i \in 1..n |-> 0]

(* Buffers as runs of equal bytes. *)

\* Number of bytes of a buffer.
RECURSIVE BufLen(_)
BufLen(b) == IF b = <<>> THEN 0 ELSE b[1][1] + BufLen(Tail(b))

\* Byte j (from 1) of a buffer.
RECURSIVE ByteAt(_, _)
ByteAt(b, j) == IF j <= b[1][1] THEN b[1][2] ELSE ByteAt(Tail(b), j - b[1][1])

\* Bytes from+1 .. to of a buffer, as a plain sequence.
Bytes(b, from, to) == [k \in 1..(to - from) |-> ByteAt(b, from + k)]

\* A buffer without its first n bytes, and the first n bytes of a buffer.
RECURSIVE BufDrop(_, _)
BufDrop(b, n) ==
  IF n = 0 \/ b = <<>> THEN b
  ELSE IF b[1][1] <= n THEN BufDrop(Tail(b), n - b[1][1])
  ELSE << <<b[1][1] - n, b[1][2]>> >> \o Tail(b)

RECURSIVE BufTake(_, _)
BufTake(b, n) ==
  IF n = 0 \/ b = <<>> THEN <<>>
  ELSE IF b[1][1] <= n THEN <<b[1]>> \o BufTake(Tail(b), n - b[1][1])
  ELSE << <<n, b[1][2]>> >>

\* Runs joined where neighbours hold the same byte; empty runs dropped.
RECURSIVE Normal(_)
Normal(b) ==
  IF b = <<>> THEN <<>>
  ELSE IF b[1][1] = 0 THEN Normal(Tail(b))
  ELSE IF Len(b) >= 2 /\ b[2][1] = 0 THEN Normal(<<b[1]>> \o Tail(Tail(b)))
  ELSE IF Len(b) >= 2 /\ b[2][2] = b[1][2]
    THEN Normal(<< <<b[1][1] + b[2][1], b[1][2]>> >> \o Tail(Tail(b)))
  ELSE <<b[1]>> \o Normal(Tail(b))

IsDigit(b) == b >= 48 /\ b <= 57
IsWhite(b) == b \in {9, 10, 11, 12, 13, 32}
IsCont(b) == b >= 128 /\ b <= 191

\* Length of the well-formed UTF-8 scalar encoded at s[i..], 0 when there is
\* none (ill-formed or cut short).
Utf8Len(s, i) ==
  LET n == Len(s)
      b0 == s[i]
      C(k) == i + k <= n /\ IsCont(s[i + k])
      In(k, lo, hi) == i + k <= n /\ s[i + k] >= lo /\ s[i + k] <= hi
  IN  IF b0 <= 127 THEN 1
      ELSE IF b0 >= 194 /\ b0 <= 223 THEN (IF C(1) THEN 2 ELSE 0)
      ELSE IF b0 = 224 THEN (IF In(1, 160, 191) /\ C(2) THEN 3 ELSE 0)
      ELSE IF b0 = 237 THEN (IF In(1, 128, 159) /\ C(2) THEN 3 ELSE 0)
      ELSE IF b0 >= 225 /\ b0 <= 239 THEN (IF C(1) /\ C(2) THEN 3 ELSE 0)
      ELSE IF b0 = 240 THEN (IF In(1, 144, 191) /\ C(2) /\ C(3) THEN 4 ELSE 0)
      ELSE IF b0 >= 241 /\ b0 <= 243 THEN (IF C(1) /\ C(2) /\ C(3) THEN 4 ELSE 0)
      ELSE IF b0 = 244 THEN (IF In(1, 128, 143) /\ C(2) /\ C(3) THEN 4 ELSE 0)
      ELSE 0

\* Number of leading bytes of s that form well-formed UTF-8, scanning from i.
RECURSIVE ValidUpTo(_, _)
ValidUpTo(s, i) ==
  IF i > Len(s) THEN Len(s)
  ELSE LET k == Utf8Len(s, i)
       IN  IF k = 0 THEN i - 1 ELSE ValidUpTo(s, i + k)

\* str::from_utf8: the bytes as text, or a Utf8Error with valid_up_to.
from_utf8(s) ==
  LET v == ValidUpTo(s, 1)
  IN  IF v = Len(s) THEN [ok |-> TRUE, val |-> s]
      ELSE [ok |-> FALSE, err |-> [kind |-> "Utf8Error", valid_up_to |-> v]]

\* str::trim on text whose whitespace is ASCII.
RECURSIVE TrimLeft(_)
TrimLeft(s) ==
  IF s # <<>> /\ IsWhite(s[1]) THEN TrimLeft(Tail(s)) ELSE s

RECURSIVE TrimRight(_)
TrimRight(s) ==
  IF s # <<>> /\ IsWhite(s[Len(s)]) THEN TrimRight(SubSeq(s, 1, Len(s) - 1)) ELSE s

Trim(s) == TrimRight(TrimLeft(s))

AllDigits(s) == s # <<>> /\ \A i \in 1..Len(s) : IsDigit(s[i])

\* Value of a string of decimal digits.
RECURSIVE DigitsVal(_)
DigitsVal(s) ==
  IF s = <<>> THEN 0
  ELSE 10 * DigitsVal(SubSeq(s, 1, Len(s) - 1)) + (s[Len(s)] - 48)

\* Decimal digits of a natural number.
RECURSIVE NatDigits(_)
NatDigits(n) ==
  IF n < 10 THEN <<48 + n>> ELSE NatDigits(n \div 10) \o <<48 + (n % 10)>>

\* Index of the first '.' of s, 0 when there is none.
RECURSIVE DotAt(_, _)
DotAt(s, i) ==
  IF i > Len(s) THEN 0 ELSE IF s[i] = 46 THEN i ELSE DotAt(s, i + 1)

Pow10(k) == IF k = 0 THEN 1 ELSE IF k = 1 THEN 10 ELSE IF k = 2 THEN 100 ELSE 1000

(* --------------------------- Result values ----------------------------- *)

Ok(v) == [ok |-> TRUE, val |-> v]
Err(e) == [ok |-> FALSE, err |-> e]
None == [some |-> FALSE]
Some(v) == [some |-> TRUE, val |-> v]

\* A panic: the call unwinds and returns nothing; what is the panic message.
Panic(what) == [ok |-> FALSE, panic |-> TRUE, err |-> what]
IsPanic(r) == "panic" \in DOMAIN r

\* Mutant of CollectResult: the last Err met wins instead of the first.
RECURSIVE LastErrFrom(_, _)
LastErrFrom(rs, i) ==
  IF i < 1 THEN 0 ELSE IF ~rs[i].ok THEN i ELSE LastErrFrom(rs, i - 1)

CollectResultLast(rs) ==
  LET k == LastErrFrom(rs, Len(rs))
  IN  IF k = 0 THEN [ok |-> TRUE, val |-> [i \in 1..Len(rs) |-> rs[i].val]]
      ELSE [ok |-> FALSE, err |-> rs[k].err]

\* Iterator::collect::<Result<Vec<_>, E>>() over results taken in order: the
\* first Err met, else Ok of all values.
RECURSIVE FirstErrFrom(_, _)
FirstErrFrom(rs, i) ==
  IF i > Len(rs) THEN 0 ELSE IF ~rs[i].ok THEN i ELSE FirstErrFrom(rs, i + 1)

CollectResult(rs) ==
  LET k == FirstErrFrom(rs, 1)
  IN  IF k = 0 THEN Ok([i \in 1..Len(rs) |-> rs[i].val]) ELSE Err(rs[k].err)

(* ------------------- collaborators outside the codec ------------------- *)
(* TableEntryFormat, TableEntry, AsciiTable, Column and the raw reader are *)
(* used by the codec but defined elsewhere in the crate; they follow the   *)
(* specification's description of them.                                    *)

FmtChar(w) == [kind |-> "Char", width |-> w, prec |-> 0, text |-> <<>>]
FmtInt(w) == [kind |-> "Int", width |-> w, prec |-> 0, text |-> <<>>]
FmtFloat(w, p) == [kind |-> "Float", width |-> w, prec |-> p, text |-> <<>>]
FmtInvalid(code) == [kind |-> "Invalid", width |-> 0, prec |-> 0, text |-> code]

\* TableEntryFormat::from_fortran_format_code: 'A'<w>, 'I'<w>, 'F'<w>[.<p>];
\* anything else is Invalid(original text).
from_fortran_format_code(code) ==
  IF code = <<>> THEN Ok(FmtInvalid(code))
  ELSE LET rest == Tail(code)
           dot == DotAt(rest, 1)
           wtxt == SubSeq(rest, 1, dot - 1)
           ptxt == SubSeq(rest, dot + 1, Len(rest))
       IN  IF code[1] = 65 /\ AllDigits(rest) THEN Ok(FmtChar(DigitsVal(rest)))
           ELSE IF code[1] = 73 /\ AllDigits(rest) THEN Ok(FmtInt(DigitsVal(rest)))
           ELSE IF code[1] = 70 /\ dot = 0 /\ AllDigits(rest)
             THEN Ok(FmtFloat(DigitsVal(rest), 0))
           ELSE IF code[1] = 70 /\ dot > 0 /\ AllDigits(wtxt) /\ AllDigits(ptxt)
             THEN Ok(FmtFloat(DigitsVal(wtxt), DigitsVal(ptxt)))
           ELSE Ok(FmtInvalid(code))

\* TableEntryFormat::get_field_width
get_field_width(fmt) == fmt.width

\* A fixed-point value mant / 10^scale without trailing zeros in the fraction.
RECURSIVE NormFloat(_, _)
NormFloat(m, s) ==
  IF s > 0 /\ m % 10 = 0 THEN NormFloat(m \div 10, s - 1) ELSE <<m, s>>

ParseErr(st) == [kind |-> "ParseError", text |-> st]

\* Unsigned digits[.digits] as a fixed-point value.
ParseUFloat(t) ==
  LET dot == DotAt(t, 1)
      ip == SubSeq(t, 1, dot - 1)
      fp == SubSeq(t, dot + 1, Len(t))
  IN  IF dot = 0 THEN (IF AllDigits(t) THEN Ok(<<DigitsVal(t), 0>>) ELSE Err("nan"))
      ELSE IF AllDigits(ip \o fp) /\ Len(fp) <= 3
        THEN Ok(NormFloat(DigitsVal(ip \o fp), Len(fp)))
      ELSE Err("nan")

\* TableEntry::from_parts: the field's text turned into a typed entry.
from_parts(st, fmt) ==
  LET t == Trim(st)
      neg == t # <<>> /\ t[1] = 45
      body == IF t # <<>> /\ t[1] \in {43, 45} THEN Tail(t) ELSE t
      f == ParseUFloat(body)
  IN  IF fmt.kind = "Char" THEN Ok([kind |-> "Char", val |-> st])
      ELSE IF fmt.kind = "Int" THEN
        IF AllDigits(body)
          THEN Ok([kind |-> "Int",
                   val |-> IF neg THEN 0 - DigitsVal(body) ELSE DigitsVal(body)])
          ELSE Err(ParseErr(st))
      ELSE IF fmt.kind = "Float" THEN
        IF f.ok
          THEN Ok([kind |-> "Float",
                   val |-> IF neg THEN <<0 - f.val[1], f.val[2]>> ELSE f.val])
          ELSE Err(ParseErr(st))
      ELSE Err(ParseErr(st))

\* Column<T>::new(label): an empty column of element type T.
NewColumn(ty, label) == [ty |-> ty, label |-> label, data |-> <<>>]

\* AsciiTable::new_sized(cols, size)
new_sized(cols, size) == [cols |-> cols, size |-> size]

EntryType(e) ==
  IF e.kind = "Char" THEN "String" ELSE IF e.kind = "Int" THEN "i64" ELSE "f64"

\* AsciiTable::add_row: one entry appended to every column, in column order.
add_row(tbl, row) ==
  IF Len(row) # Len(tbl.cols)
       \/ \E i \in 1..Len(row) : EntryType(row[i]) # tbl.cols[i].ty
    THEN Err([kind |-> "ShapeError"])
    ELSE Ok([tbl EXCEPT !.cols =
               [i \in 1..Len(tbl.cols) |->
                  [tbl.cols[i] EXCEPT !.data = Append(@, row[i].val)]]])

RECURSIVE MaxLenFrom(_, _)
MaxLenFrom(cols, i) ==
  IF i > Len(cols) THEN 0
  ELSE LET m == MaxLenFrom(cols, i + 1)
       IN  IF Len(cols[i].data) > m THEN Len(cols[i].data) ELSE m

\* AsciiTable::max_col_len: the length of the longest column.
max_col_len(tbl) == MaxLenFrom(tbl.cols, 1)

\* A fraction of s digits, zero-filled on the left.
FracDigits(n, s) ==
  LET d == NatDigits(n) IN [i \in 1..(s - Len(d)) |-> 48] \o d

\* A cell rendered as text: text as is, numbers in decimal.
RenderCell(ty, v) ==
  IF ty = "String" THEN v
  ELSE IF ty = "i64" THEN
    (IF v < 0 THEN <<45>> \o NatDigits(0 - v) ELSE NatDigits(v))
  ELSE LET m == IF v[1] < 0 THEN 0 - v[1] ELSE v[1]
           sign == IF v[1] < 0 THEN <<45>> ELSE <<>>
           ip == NatDigits(m \div Pow10(v[2]))
       IN  IF v[2] = 0 THEN sign \o ip
           ELSE sign \o ip \o <<46>> \o FracDigits(m % Pow10(v[2]), v[2])

\* AsciiTable::destroy: the columns, in order, each as its rendered cells.
destroy(tbl) ==
  [i \in 1..Len(tbl.cols) |->
     [j \in 1..Len(tbl.cols[i].data) |->
        RenderCell(tbl.cols[i].ty, tbl.cols[i].data[j])]]

\* RawFitsReader::read_blocks into a buffer of n bytes: a short read or a
\* buffer that is not a whole number of blocks is an I/O error; otherwise the
\* cursor advances by n.
read_blocks(strm, at, n) ==
  IF n % BLOCK_SIZE # 0 \/ at + n > BufLen(strm)
    THEN [ok |-> FALSE, err |-> [kind |-> "IoError"], pos |-> at, buf |-> <<>>]
    ELSE [ok |-> TRUE, err |-> [kind |-> "None"], pos |-> at + n,
          buf |-> BufTake(BufDrop(strm, at), n)]

(* ------------------- AsciiTblParser: pure helpers ---------------------- *)

\* The filler row of split_rows.resize(rows_in_file, vec!["ERROR"]).
FillerRow == << <<69, 82, 82, 79, 82>> >>

\* Mutant of NumBlocks: the leftover block is not counted.
NumBlocksNoLeftover(byte_size) == byte_size \div BLOCK_SIZE

\* decode_tbl (1): the number of blocks holding byte_size bytes, counting a
\* leftover block.
NumBlocks(byte_size) ==
  IF byte_size % BLOCK_SIZE # 0
    THEN byte_size \div BLOCK_SIZE + 1
    ELSE byte_size \div BLOCK_SIZE

\* slice::par_chunks_exact(n): how many whole chunks, and the i-th (from 0),
\* a slice of the buffer.
NumChunks(buf, n) == BufLen(buf) \div n
Chunk(buf, n, i) == [buf |-> buf, off |-> i * n, len |-> n]

\* split_row: every field window of a raw row as text, taken in order.  The
\* loop ends at the first field that has no length (index out of bounds),
\* that starts beyond the row (range start out of range) or whose window
\* ends beyond it (range end out of range), with a panic, or whose window is
\* not UTF-8, with the Utf8Error.
split_row(raw, field_start, field_len) ==
  LET rs == [i \in 1..Len(field_start) |->
               IF i > Len(field_len)
                 THEN Panic([kind |-> "IndexOutOfBounds", index |-> i - 1,
                             len |-> Len(field_len)])
               ELSE IF field_start[i] > raw.len
                 THEN Panic([kind |-> "RangeStartOutOfRange",
                             start |-> field_start[i], len |-> raw.len])
               ELSE IF field_start[i] + field_len[i] > raw.len
                 THEN Panic([kind |-> "RangeEndOutOfRange",
                             end |-> field_start[i] + field_len[i],
                             len |-> raw.len])
               ELSE from_utf8(Bytes(raw.buf, raw.off + field_start[i],
                                    raw.off + field_start[i] + field_len[i]))]
      k == FirstErrFrom(rs, 1)
  IN  IF k = 0 THEN Ok([i \in 1..Len(rs) |-> rs[i].val]) ELSE rs[k]

\* decode_tbl (3b), the closure: every field text of a row converted with
\* the format of its index, collected to the first ParseError.
ConvertRow(field_vec, formats) ==
  CollectResult([i \in 1..Len(field_vec) |-> from_parts(field_vec[i], formats[i])])

\* Vec::resize(n, filler): truncated to n, or extended with the filler.
Resize(v, n, filler) ==
  [i \in 1..n |-> IF i <= Len(v) THEN v[i] ELSE filler]

\* A slot of a parallel collect whose task has not finished.
Pending == [pending |-> TRUE]
IsPending(r) == "pending" \in DOMAIN r

\* Mutant of CollectIndexed: results land in the order the tasks finish.
CollectFirstFinished(rs, i, r) ==
  LET k == CHOOSE j \in 1..Len(rs) :
             IsPending(rs[j]) /\ \A h \in 1..(j - 1) : ~IsPending(rs[h])
  IN  [rs EXCEPT ![k] = r]

\* rayon's indexed collect: the result of task i lands in slot i.
CollectIndexed(rs, i, r) == [rs EXCEPT ![i] = r]

\* Mutant of TableSize: the table is sized to the declared row count.
TableSizeRows(blocks, rows) == rows

\* decode_tbl (2b): the size handed to setup_table, the number of blocks read.
TableSize(blocks, rows) == blocks

\* The label of column i.
LabelOf(labels, i) == IF labels.some THEN Some(labels.val[i]) ELSE None

\* setup_table (1): the typed column of a format.
ColumnFor(fmt, label) ==
  IF fmt.kind = "Char" THEN NewColumn("String", label)
  ELSE IF fmt.kind = "Int" THEN NewColumn("i64", label)
  ELSE NewColumn("f64", label)

\* labels has no entry for column i: vec[i] is out of bounds.
NoLabel(labels, i) == labels.some /\ i > Len(labels.val)

\* The panic of vec[i] (i from 1 here, from 0 in the message).
LabelPanic(labels, i) ==
  Panic([kind |-> "IndexOutOfBounds", index |-> i - 1, len |-> Len(labels.val)])

\* setup_table (1): the first turn of the loop, from turn i on, that ends it:
\* an Invalid format, or a column whose label is missing; 0 when none does.
RECURSIVE FirstHaltFrom(_, _, _)
FirstHaltFrom(formats, labels, i) ==
  IF i > Len(formats) THEN 0
  ELSE IF formats[i].kind = "Invalid" \/ NoLabel(labels, i) THEN i
  ELSE FirstHaltFrom(formats, labels, i + 1)

\* Mutant of setup_table: an Invalid format falls through to a column.
setup_table_lenient(formats, labels, size) ==
  IF NoLabel(labels, Len(formats)) THEN LabelPanic(labels, Len(labels.val) + 1)
  ELSE Ok(new_sized([i \in 1..Len(formats) |->
                       ColumnFor(formats[i], LabelOf(labels, i))], size))

\* setup_table: one typed column per format, made in order.  An Invalid
\* format ends the loop with InvalidFFCode of its text; a Char, Int or Float
\* format whose label is missing from the labels given ends it with a panic;
\* else a table of the given size.
setup_table(formats, labels, size) ==
  LET k == FirstHaltFrom(formats, labels, 1)
  IN  IF k = 0
        THEN Ok(new_sized([i \in 1..Len(formats) |->
                             ColumnFor(formats[i], LabelOf(labels, i))], size))
      ELSE IF formats[k].kind = "Invalid"
        THEN Err([kind |-> "InvalidFFCode", text |-> formats[k].text])
      ELSE LabelPanic(labels, k)

\* Mutant of PadCol: the padding loop stops one entry early.
PadColShort(col, len) ==
  [j \in 1..(IF Len(col) + 1 < len THEN len - 1 ELSE Len(col)) |->
     IF j <= Len(col) THEN col[j] ELSE <<>>]

\* encode_tbl (2): a column extended with empty strings up to tbl_len.
PadCol(col, len) ==
  [j \in 1..(IF Len(col) < len THEN len ELSE Len(col)) |->
     IF j <= Len(col) THEN col[j] ELSE <<>>]

(* ----------------------------- TypedImage ------------------------------ *)

\* Image<T>::get_data / get_data_owned: the array of the image.
get_data(image) == image.data

\* TypedImage::bpx
bpx(self) ==
  CASE self.variant = "ByteImg" -> "Byte"
    [] self.variant = "I16Img" -> "Short"
    [] self.variant = "I32Img" -> "Int"
    [] self.variant = "I64Img" -> "Long"
    [] self.variant = "SpfImg" -> "Spf"
    [] self.variant = "DpfImg" -> "Dpf"

\* WrongImgTypeErr::new(img, requested)
WITErr(var, requested) ==
  [kind |-> "WrongImgTypeErr", stored |-> bpx(var), requested |-> requested]

as_u8_array(self) ==
  IF self.variant = "ByteImg" THEN Ok(get_data(self)) ELSE Err(WITErr(self, "Byte"))
as_i16_array(self) ==
  IF self.variant = "I16Img" THEN Ok(get_data(self)) ELSE Err(WITErr(self, "Short"))
\* Mutant of as_i32_array: the error names the wrong requested type.
as_i32_array_long(self) ==
  IF self.variant = "I32Img" THEN Ok(get_data(self)) ELSE Err(WITErr(self, "Long"))
as_i32_array(self) ==
  IF self.variant = "I32Img" THEN Ok(get_data(self)) ELSE Err(WITErr(self, "Int"))
as_i64_array(self) ==
  IF self.variant = "I64Img" THEN Ok(get_data(self)) ELSE Err(WITErr(self, "Long"))
as_f32_array(self) ==
  IF self.variant = "SpfImg" THEN Ok(get_data(self)) ELSE Err(WITErr(self, "Spf"))
as_f64_array(self) ==
  IF self.variant = "DpfImg" THEN Ok(get_data(self)) ELSE Err(WITErr(self, "Dpf"))

as_owned_u8_array(self) ==
  IF self.variant = "ByteImg" THEN Ok(get_data(self)) ELSE Err(WITErr(self, "Byte"))
as_owned_i16_array(self) ==
  IF self.variant = "I16Img" THEN Ok(get_data(self)) ELSE Err(WITErr(self, "Short"))
as_owned_i32_array(self) ==
  IF self.variant = "I32Img" THEN Ok(get_data(self)) ELSE Err(WITErr(self, "Int"))
as_owned_i64_array(self) ==
  IF self.variant = "I64Img" THEN Ok(get_data(self)) ELSE Err(WITErr(self, "Long"))
as_owned_f32_array(self) ==
  IF self.variant = "SpfImg" THEN Ok(get_data(self)) ELSE Err(WITErr(self, "Spf"))
as_owned_f64_array(self) ==
  IF self.variant = "DpfImg" THEN Ok(get_data(self)) ELSE Err(WITErr(self, "Dpf"))

Variants == {"ByteImg", "I16Img", "I32Img", "I64Img", "SpfImg", "DpfImg"}
ElemTypes == {"u8", "i16", "i32", "i64", "f32", "f64"}

\* The borrowing accessor of element type ty.
Borrowing(ty, self) ==
  CASE ty = "u8" -> as_u8_array(self)
    [] ty = "i16" -> as_i16_array(self)
    [] ty = "i32" -> as_i32_array(self)
    [] ty = "i64" -> as_i64_array(self)
    [] ty = "f32" -> as_f32_array(self)
    [] ty = "f64" -> as_f64_array(self)

\* The consuming accessor of element type ty.
Owning(ty, self) ==
  CASE ty = "u8" -> as_owned_u8_array(self)
    [] ty = "i16" -> as_owned_i16_array(self)
    [] ty = "i32" -> as_owned_i32_array(self)
    [] ty = "i64" -> as_owned_i64_array(self)
    [] ty = "f32" -> as_owned_f32_array(self)
    [] ty = "f64" -> as_owned_f64_array(self)

\* A TypedImage that was moved out of.
Moved == [variant |-> "Moved", data |-> <<>>]

\* Arrays the images are drawn from.
ImageData == {<<>>, <<7>>, <<1, 2>>}

(* ------------------------------- state --------------------------------- *)

VARIABLES
  stream,               \* the bytes of the file behind the reader
  pos,                  \* the reader's cursor into stream
  chars_in_row,         \* decode_tbl arguments
  rows_in_file,
  row_index_col_start,
  field_format,
  field_labels,
  pc,                   \* position of the decode_tbl / encode_tbl call
  num_blocks,           \* locals of decode_tbl
  whole_table,
  fmts,
  field_lengs,
  tbl,
  tasks,                \* rows of the running parallel stage not yet mapped
  split_rows_err,
  split_rows,
  fmtd_rows_err,
  fmtd_rows,
  next_row,             \* the row the for loop of (3c) appends next
  outcome,              \* what decode_tbl returned
  tbl_len,              \* locals of encode_tbl
  cols,
  enc_outcome,          \* how encode_tbl ended
  written,              \* the bytes handed to the writer
  img,                  \* a TypedImage, the accessor last called on it
  call,                 \* and what the accessor returned
  res

inputs ==
  <<stream, chars_in_row, rows_in_file, row_index_col_start, field_format,
    field_labels>>
declocals ==
  <<num_blocks, whole_table, fmts, field_lengs, tbl, tasks, split_rows_err,
    split_rows, fmtd_rows_err, fmtd_rows, next_row>>
encvars == <<tbl_len, cols, enc_outcome, written>>
imgvars == <<img, call, res>>
vars == <<inputs, pos, pc, declocals, outcome, encvars, imgvars>>

(* ------------------------------ inputs --------------------------------- *)

\* Table layouts: TFORMn codes, 0-based field starts, optional labels, and
\* the widths of the fields as the file was written (gw).
LayoutA ==
  [codes |-> << <<65, 50>> >>, starts |-> <<0>>, labels |-> None, gw |-> <<2>>]
LayoutAI ==
  [codes |-> << <<65, 50>>, <<73, 50>> >>, starts |-> <<0, 3>>,
   labels |-> Some(<< <<97>>, <<98>> >>), gw |-> <<2, 2>>]
LayoutIF ==
  [codes |-> << <<73, 50>>, <<70, 51, 46, 49>> >>, starts |-> <<0, 2>>,
   labels |-> None, gw |-> <<2, 3>>]
LayoutBad ==
  [codes |-> << <<73, 50>>, <<81, 49>>, <<73, 50, 120>> >>, starts |-> <<0, 2, 3>>,
   labels |-> None, gw |-> <<2, 1, 3>>]
\* A second field at bytes 1439..1440: it leaves a row of 1440 bytes.
LayoutFar ==
  [codes |-> << <<65, 50>>, <<65, 50>> >>, starts |-> <<0, 1439>>,
   labels |-> None, gw |-> <<2, 2>>]
\* A second field at bytes 1441..1442: it starts beyond a row of 1440 bytes.
LayoutOut ==
  [codes |-> << <<65, 50>>, <<65, 50>> >>, starts |-> <<0, 1441>>,
   labels |-> None, gw |-> <<2, 2>>]
\* Labels given, but none for the first column; the second code is unparseable.
LayoutFewLabels ==
  [codes |-> << <<65, 50>>, <<81, 49>> >>, starts |-> <<0, 2>>,
   labels |-> Some(<<>>), gw |-> <<2, 2>>]
\* Labels given for the first column only.
LayoutOneLabel ==
  [codes |-> << <<65, 50>>, <<73, 50>> >>, starts |-> <<0, 2>>,
   labels |-> Some(<< <<97>> >>), gw |-> <<2, 2>>]

GoodLayouts == {LayoutA, LayoutAI, LayoutIF, LayoutFar}
PlainLayouts == {LayoutBad, LayoutOut, LayoutFewLabels, LayoutOneLabel}
Layouts == GoodLayouts \cup PlainLayouts

\* What a row of the file holds in each of its fields.
RowKinds == {"one", "two", "txt", "nul", "bad"}
PadKinds == {"nul", "bad"}

Cell(kind, w) ==
  CASE kind = "one" -> Blanks(w - 1) \o <<49>>
    [] kind = "two" -> Blanks(w - 1) \o <<50>>
    [] kind = "txt" -> <<97>> \o Blanks(w - 1)
    [] kind = "bad" -> <<255>> \o Blanks(w - 1)
    [] kind = "nul" -> Zeros(w)

\* The bytes of a row of w bytes from offset at on: blanks up to field f, the
\* cell of field f, and so on to the last field, then blanks to the end of
\* the row (a nul row: zeros throughout).  A field is cut where the row ends.
RECURSIVE FieldRuns(_, _, _, _, _)
FieldRuns(kind, w, lay, f, at) ==
  LET fill == IF kind = "nul" THEN 0 ELSE 32
  IN  IF f > Len(lay.starts) THEN << <<w - at, fill>> >>
      ELSE LET s == IF lay.starts[f] < w THEN lay.starts[f] ELSE w
               e == IF lay.starts[f] + lay.gw[f] < w
                      THEN lay.starts[f] + lay.gw[f] ELSE w
           IN  << <<s - at, fill>> >>
                 \o [k \in 1..(e - s) |-> <<1, Cell(kind, lay.gw[f])[k]>>]
                 \o FieldRuns(kind, w, lay, f + 1, e)

\* A row of w bytes.
RowRuns(kind, w, lay) == FieldRuns(kind, w, lay, 1, 0)

RECURSIVE RowsRuns(_, _, _, _)
RowsRuns(kinds, i, w, lay) ==
  IF i > Len(kinds) THEN <<>>
  ELSE RowRuns(kinds[i], w, lay) \o RowsRuns(kinds, i + 1, w, lay)

\* The table region of a file: nb blocks holding the rows of w bytes with
\* the given contents, zero-filled after the last row.
TableBytes(w, nb, lay, kinds) ==
  LET rows == [i \in 1..((nb * BLOCK_SIZE) \div w) |-> kinds[i]]
  IN  Normal(RowsRuns(rows, 1, w, lay)
               \o << <<nb * BLOCK_SIZE - Len(rows) * w, 0>> >>)

\* Blocks a table of r rows of w bytes occupies in a file.
TableBlocks(w, r) == (w * r + BLOCK_SIZE - 1) \div BLOCK_SIZE

\* Row contents for n chunks of which the first r are declared rows.
KindSeqs(n, r) ==
  {ks \in [1..n -> RowKinds] : \A i \in 1..n : i > r => ks[i] \in PadKinds}

PlainKinds(n, r) == [i \in 1..n |-> IF i > r THEN "nul" ELSE "one"]

(* ------------------------------- Init ---------------------------------- *)

NoCall == [ty |-> "none", owned |-> FALSE, self |-> Moved]
NoRes == [ok |-> FALSE, err |-> [kind |-> "None"]]
NoOutcome == [ok |-> FALSE, err |-> [kind |-> "Running"]]

DecLocalsInit ==
  /\ num_blocks = 0
  /\ whole_table = <<>>
  /\ fmts = <<>>
  /\ field_lengs = <<>>
  /\ tbl = None
  /\ tasks = {}
  /\ split_rows_err = <<>>
  /\ split_rows = <<>>
  /\ fmtd_rows_err = <<>>
  /\ fmtd_rows = <<>>
  /\ next_row = 0

EncInit ==
  /\ tbl_len = 0
  /\ cols = <<>>
  /\ enc_outcome = "NotCalled"
  /\ written = <<>>

ImgIdle ==
  /\ img = Moved
  /\ call = NoCall
  /\ res = NoRes

\* A reader positioned at the table of a file, and the arguments decode_tbl
\* gets from the header.  short: the file ends one block early.
Init ==
  /\ \E lay \in Layouts, w \in RowWidths, r \in 0..MaxRows, short \in BOOLEAN :
       LET nb == TableBlocks(w, r)
           n == (nb * BLOCK_SIZE) \div w
       IN  \E ks \in KindSeqs(n, r) :
             /\ (short \/ lay \in PlainLayouts) => ks = PlainKinds(n, r)
             /\ short => nb > 0
             /\ stream = TableBytes(w, IF short THEN nb - 1 ELSE nb, lay, ks)
             /\ chars_in_row = w
             /\ rows_in_file = r
             /\ row_index_col_start = lay.starts
             /\ field_format = lay.codes
             /\ field_labels = lay.labels
  /\ pos = 0
  /\ pc = "start"
  /\ outcome = NoOutcome
  /\ DecLocalsInit
  /\ EncInit
  /\ ImgIdle

(* ---------------------------- decode_tbl ------------------------------- *)

Exit(result) ==
  /\ pc' = "done"
  /\ outcome' = result

\* decode_tbl (1)-(2b): the block read, the formats, the field sizes and the
\* typed table; then the row chunks are handed to the parallel stage (3a).
ReadAndSetup ==
  /\ pc = "start"
  /\ LET byte_size == chars_in_row * rows_in_file
         nb == NumBlocks(byte_size)
         rd == read_blocks(stream, pos, nb * BLOCK_SIZE)
         fr == CollectResult([i \in 1..Len(field_format) |->
                                from_fortran_format_code(field_format[i])])
         lens == [i \in 1..Len(fr.val) |-> get_field_width(fr.val[i])]
         st == setup_table(fr.val, field_labels, TableSize(nb, rows_in_file))
         n == NumChunks(rd.buf, chars_in_row)
     IN  /\ num_blocks' = nb
         /\ pos' = rd.pos
         /\ whole_table' = rd.buf
         /\ IF ~rd.ok
              THEN /\ Exit(Err(rd.err))
                   /\ UNCHANGED <<fmts, field_lengs, tbl, tasks, split_rows_err>>
            ELSE IF ~fr.ok
              THEN /\ Exit(Err(fr.err))
                   /\ UNCHANGED <<fmts, field_lengs, tbl, tasks, split_rows_err>>
            ELSE IF ~st.ok
              THEN /\ Exit(IF IsPanic(st) THEN st ELSE Err(st.err))
                   /\ fmts' = fr.val
                   /\ field_lengs' = lens
                   /\ UNCHANGED <<tbl, tasks, split_rows_err>>
            ELSE /\ fmts' = fr.val
                 /\ field_lengs' = lens
                 /\ tbl' = Some(st.val)
                 /\ tasks' = 1..n
                 /\ split_rows_err' = [i \in 1..n |-> Pending]
                 /\ pc' = "split"
                 /\ UNCHANGED outcome
  /\ UNCHANGED <<inputs, split_rows, fmtd_rows_err, fmtd_rows, next_row, encvars,
                 imgvars>>

\* decode_tbl (3a): one task of the parallel map splits raw row i.
SplitRowTask(i) ==
  /\ pc = "split"
  /\ i \in tasks
  /\ split_rows_err' =
       CollectIndexed(split_rows_err, i,
         split_row(Chunk(whole_table, chars_in_row, i - 1),
                   row_index_col_start, field_lengs))
  /\ tasks' = tasks \ {i}
  /\ UNCHANGED <<inputs, pos, pc, num_blocks, whole_table, fmts, field_lengs, tbl,
                 split_rows, fmtd_rows_err, fmtd_rows, next_row, outcome, encvars,
                 imgvars>>

\* decode_tbl (3a), after the join: the panic of a task, if one panicked,
\* unwinds out of the parallel collect and out of decode_tbl; else the
\* results are unpacked in order, the row list resized to rows_in_file, and
\* the rows handed to the parallel stage (3b).
UnpackSplit ==
  /\ pc = "split"
  /\ tasks = {}
  /\ LET c == CollectResult(split_rows_err)
         panicked == {i \in 1..Len(split_rows_err) : IsPanic(split_rows_err[i])}
     IN  IF panicked # {}
           THEN /\ \E i \in panicked : Exit(split_rows_err[i])
                /\ UNCHANGED <<split_rows, fmtd_rows_err, tasks>>
         ELSE IF ~c.ok
           THEN /\ Exit(Err(c.err))
                /\ UNCHANGED <<split_rows, fmtd_rows_err, tasks>>
           ELSE /\ split_rows' = Resize(c.val, rows_in_file, FillerRow)
                /\ fmtd_rows_err' = [i \in 1..rows_in_file |-> Pending]
                /\ tasks' = 1..rows_in_file
                /\ pc' = "convert"
                /\ UNCHANGED outcome
  /\ UNCHANGED <<inputs, pos, num_blocks, whole_table, fmts, field_lengs, tbl,
                 split_rows_err, fmtd_rows, next_row, encvars, imgvars>>

\* Mutant of ConvertRowTask: the closure appends its row to the table itself.
ConvertRowTaskAppending(i) ==
  /\ pc = "convert"
  /\ i \in tasks
  /\ LET c == ConvertRow(split_rows[i], fmts)
         a == add_row(tbl.val, c.val)
     IN  /\ fmtd_rows_err' = CollectIndexed(fmtd_rows_err, i, c)
         /\ tbl' = IF c.ok /\ a.ok THEN Some(a.val) ELSE tbl
  /\ tasks' = tasks \ {i}
  /\ UNCHANGED <<inputs, pos, pc, num_blocks, whole_table, fmts, field_lengs,
                 split_rows_err, split_rows, fmtd_rows, next_row, outcome, encvars,
                 imgvars>>

\* decode_tbl (3b): one task of the parallel map converts the fields of row i.
ConvertRowTask(i) ==
  /\ pc = "convert"
  /\ i \in tasks
  /\ fmtd_rows_err' = CollectIndexed(fmtd_rows_err, i, ConvertRow(split_rows[i], fmts))
  /\ tasks' = tasks \ {i}
  /\ UNCHANGED <<inputs, pos, pc, num_blocks, whole_table, fmts, field_lengs, tbl,
                 split_rows_err, split_rows, fmtd_rows, next_row, outcome, encvars,
                 imgvars>>

\* decode_tbl (3b), after the join: the results unpacked in order.
UnpackFmtd ==
  /\ pc = "convert"
  /\ tasks = {}
  /\ LET c == CollectResult(fmtd_rows_err)
     IN  IF ~c.ok
           THEN /\ Exit(Err(c.err))
                /\ UNCHANGED <<fmtd_rows, next_row>>
           ELSE /\ fmtd_rows' = c.val
                /\ next_row' = 1
                /\ pc' = "fill"
                /\ UNCHANGED outcome
  /\ UNCHANGED <<inputs, pos, num_blocks, whole_table, fmts, field_lengs, tbl, tasks,
                 split_rows_err, split_rows, fmtd_rows_err, encvars, imgvars>>

\* decode_tbl (3c): one turn of the for loop appends the next row.
AddRow ==
  /\ pc = "fill"
  /\ next_row <= Len(fmtd_rows)
  /\ LET a == add_row(tbl.val, fmtd_rows[next_row])
     IN  IF ~a.ok
           THEN /\ Exit(Err(a.err))
                /\ UNCHANGED <<tbl, next_row>>
           ELSE /\ tbl' = Some(a.val)
                /\ next_row' = next_row + 1
                /\ UNCHANGED <<pc, outcome>>
  /\ UNCHANGED <<inputs, pos, num_blocks, whole_table, fmts, field_lengs, tasks,
                 split_rows_err, split_rows, fmtd_rows_err, fmtd_rows, encvars,
                 imgvars>>

\* decode_tbl (R): the filled table returned as an Extension.
Return ==
  /\ pc = "fill"
  /\ next_row > Len(fmtd_rows)
  /\ Exit(Ok([ext |-> "AsciiTable", tbl |-> tbl.val]))
  /\ UNCHANGED <<inputs, pos, declocals, encvars, imgvars>>

(* ---------------------------- encode_tbl ------------------------------- *)

\* encode_tbl on the table of a decoded Extension: the columns taken out of
\* the table and padded to the longest one; the function then stops at its
\* todo!() and nothing reaches the writer.  (tbl_fmts, read at (1), is never
\* used before the todo!() and is left out.)
EncodeTbl ==
  /\ pc = "done"
  /\ outcome.ok
  /\ LET t == outcome.val.tbl
         len == max_col_len(t)
         cs == destroy(t)
     IN  /\ tbl_len' = len
         /\ cols' = [i \in 1..Len(cs) |-> PadCol(cs[i], len)]
  /\ enc_outcome' = "Panic"
  /\ written' = written
  /\ pc' = "encoded"
  /\ UNCHANGED <<inputs, pos, declocals, outcome, imgvars>>

Next ==
  \/ ReadAndSetup
  \/ \E i \in tasks : SplitRowTask(i)
  \/ UnpackSplit
  \/ \E i \in tasks : ConvertRowTask(i)
  \/ UnpackFmtd
  \/ AddRow
  \/ Return
  \/ EncodeTbl

Spec == Init /\ [][Next]_vars

(* ------------------- encode_tbl on hand-built tables ------------------- *)

\* Columns of every length up to MaxColLen over the given cells.
ColumnsOf(ty, cells) ==
  {[ty |-> ty, label |-> None, data |-> d] :
     d \in UNION {[1..n -> cells] : n \in 0..MaxColLen}}

\* A table of a text, an integer and a fixed-point column, each of its own
\* length, as a caller may build it, wrapped as the Extension encode gets.
InitEnc ==
  /\ \E c1 \in ColumnsOf("String", {<<97>>, <<98, 32>>}),
        c2 \in ColumnsOf("i64", {5, 0 - 12}),
        c3 \in ColumnsOf("f64", {<<15, 1>>, <<2, 0>>}) :
       outcome = Ok([ext |-> "AsciiTable", tbl |-> new_sized(<<c1, c2, c3>>, 0)])
  /\ pc = "done"
  /\ stream = <<>>
  /\ pos = 0
  /\ chars_in_row = 1
  /\ rows_in_file = 0
  /\ row_index_col_start = <<>>
  /\ field_format = <<>>
  /\ field_labels = None
  /\ DecLocalsInit
  /\ EncInit
  /\ ImgIdle

NextEnc == EncodeTbl

SpecEnc == InitEnc /\ [][NextEnc]_vars

(* ------------------------ TypedImage accessors ------------------------- *)

InitImg ==
  /\ img \in [variant : Variants, data : ImageData]
  /\ call = NoCall
  /\ res = NoRes
  /\ pc = "idle"
  /\ outcome = NoOutcome
  /\ stream = <<>>
  /\ pos = 0
  /\ chars_in_row = 1
  /\ rows_in_file = 0
  /\ row_index_col_start = <<>>
  /\ field_format = <<>>
  /\ field_labels = None
  /\ DecLocalsInit
  /\ EncInit

\* as_<ty>_array(&self): the image stays with the caller.
Borrow(ty) ==
  /\ img.variant \in Variants
  /\ call' = [ty |-> ty, owned |-> FALSE, self |-> img]
  /\ res' = Borrowing(ty, img)
  /\ UNCHANGED <<img, inputs, pos, pc, declocals, outcome, encvars>>

\* as_owned_<ty>_array(self): the image is consumed.
Own(ty) ==
  /\ img.variant \in Variants
  /\ call' = [ty |-> ty, owned |-> TRUE, self |-> img]
  /\ res' = Owning(ty, img)
  /\ img' = Moved
  /\ UNCHANGED <<inputs, pos, pc, declocals, outcome, encvars>>

NextImg ==
  \/ \E ty \in ElemTypes : Borrow(ty)
  \/ \E ty \in ElemTypes : Own(ty)

SpecImg == InitImg /\ [][NextImg]_vars

(* ============================== properties ============================= *)

\* Row i (from 1) of the file and its field windows, as the header lays them
\* out; the reader starts at byte 0 of the table.
Window(i, f) ==
  Bytes(stream, (i - 1) * chars_in_row + row_index_col_start[f],
        (i - 1) * chars_in_row + row_index_col_start[f] + field_lengs[f])

Fields == 1..Len(row_index_col_start)
FileChunks == BufLen(stream) \div chars_in_row
Finished == pc \in {"done", "encoded"}
RowsAppended == IF tbl.some THEN max_col_len(tbl.val) ELSE 0

\* Field f ends beyond the end of a row; field f of row i lies in the row
\* and is text.
Overrun(f) == row_index_col_start[f] + field_lengs[f] > chars_in_row
TextOk(i, f) == ~Overrun(f) /\ from_utf8(Window(i, f)).ok

\* The first field of row i that is not a text window of the row, 0 when
\* every field is one.
FirstStop(i) ==
  IF \A f \in Fields : TextOk(i, f) THEN 0
  ELSE CHOOSE g \in Fields : ~TextOk(i, g) /\ \A h \in 1..(g - 1) : TextOk(i, h)

\* Splitting row i stops at a field that leaves the row / that is not text;
\* row i splits and a field of it does not convert.
SplitPanics(i) == FirstStop(i) # 0 /\ Overrun(FirstStop(i))
SplitFails(i) == FirstStop(i) # 0 /\ ~Overrun(FirstStop(i))
ConvFails(i) ==
  FirstStop(i) = 0 /\ \E f \in Fields : ~from_parts(Window(i, f), fmts[f]).ok
RowFails(i) == SplitFails(i) \/ ConvFails(i)

\* The error of the first failing field of row i.
SplitErr(i) == from_utf8(Window(i, FirstStop(i))).err
ConvErr(i) ==
  LET f == CHOOSE g \in Fields :
             /\ ~from_parts(Window(i, g), fmts[g]).ok
             /\ \A h \in 1..(g - 1) : from_parts(Window(i, h), fmts[h]).ok
  IN  from_parts(Window(i, f), fmts[f]).err
RowErr(i) == IF SplitFails(i) THEN SplitErr(i) ELSE ConvErr(i)

RowErrorReturned ==
  pc = "done" /\ ~outcome.ok /\ outcome.err.kind \in {"Utf8Error", "ParseError"}

\* C1: a successful decode_tbl reads ceil(R*W/2880)*2880 bytes and leaves
\* exactly R entries in every column of the table; each of the R rows kept
\* by the resize is a row cut from the buffer, none is the filler row.
C1_ExactlyDeclaredRows ==
  (Finished /\ outcome.ok) =>
    /\ BufLen(whole_table) = TableBlocks(chars_in_row, rows_in_file) * BLOCK_SIZE
    /\ \A c \in 1..Len(outcome.val.tbl.cols) :
         Len(outcome.val.tbl.cols[c].data) = rows_in_file
    /\ Len(split_rows) = rows_in_file
    /\ Len(split_rows_err) >= rows_in_file
    /\ \A i \in 1..rows_in_file : split_rows[i] = split_rows_err[i].val

\* C1 witness: a decode succeeded after a padding row was cut off.
C1_Witness ==
  /\ pc = "done"
  /\ outcome.ok
  /\ rows_in_file >= 1
  /\ Len(split_rows_err) > rows_in_file
  /\ Len(outcome.val.tbl.cols[1].data) = rows_in_file

\* C2: whatever the order in which the tasks finish, slot i of the split
\* results holds the fields of bytes [(i-1)*W, i*W) of the buffer, and entry i
\* of every column is converted from the window of row i.
C2_RowOrder ==
  /\ \A i \in 1..Len(split_rows_err) :
       ~IsPending(split_rows_err[i]) =>
         /\ IsPanic(split_rows_err[i]) = SplitPanics(i)
         /\ split_rows_err[i].ok = (FirstStop(i) = 0)
         /\ split_rows_err[i].ok =>
              \A f \in Fields : split_rows_err[i].val[f] = Window(i, f)
  /\ tbl.some =>
       \A f \in 1..Len(tbl.val.cols) :
         \A i \in 1..Len(tbl.val.cols[f].data) :
           LET e == from_parts(Window(i, f), fmts[f])
           IN  e.ok /\ e.val.val = tbl.val.cols[f].data[i]

\* C2 witness: two different rows were decoded into the table.
C2_Witness ==
  /\ pc = "done"
  /\ outcome.ok
  /\ rows_in_file >= 2
  /\ outcome.val.tbl.cols[1].data[1] # outcome.val.tbl.cols[1].data[2]

\* C6 as stated (for a file that holds the whole table, and labels, when
\* given, for every column): an unparseable
\* format code ends decode_tbl with a setup error naming an unparseable code,
\* with the reader where it was before the call and no table built.
C6_Original ==
  LET bad == {k \in 1..Len(field_format) :
                from_fortran_format_code(field_format[k]).val.kind = "Invalid"}
  IN  (pc = "done" /\ bad # {}
         /\ ~(field_labels.some /\ Len(field_labels.val) < Len(field_format))
         /\ BufLen(stream) >= TableBlocks(chars_in_row, rows_in_file) * BLOCK_SIZE) =>
        /\ ~outcome.ok
        /\ outcome.err.kind = "InvalidFFCode"
        /\ \E k \in bad : outcome.err.text = field_format[k]
        /\ pos = 0
        /\ ~tbl.some

\* C6 amended: with an unparseable format code decode_tbl never starts on the
\* rows and builds no table; if the block read fails it ends with the I/O
\* error, else the reader has advanced past the whole table region and the
\* call ends with a setup error carrying the text of the first unparseable
\* code, unless labels are given and a column before that code has none:
\* then it panics on the first such column.
C6_SetupErrorAfterRead ==
  LET bad == {k \in 1..Len(field_format) :
                from_fortran_format_code(field_format[k]).val.kind = "Invalid"}
      first == CHOOSE k \in bad : \A h \in bad : k <= h
      unlabelled == {k \in 1..(first - 1) :
                       field_labels.some /\ k > Len(field_labels.val)}
      size == TableBlocks(chars_in_row, rows_in_file) * BLOCK_SIZE
  IN  bad # {} =>
        /\ pc \in {"start", "done"}
        /\ split_rows_err = <<>> /\ split_rows = <<>> /\ fmtd_rows_err = <<>>
        /\ ~tbl.some
        /\ pc = "done" =>
             IF BufLen(stream) < size
               THEN ~outcome.ok /\ outcome.err.kind = "IoError"
             ELSE IF unlabelled # {}
               THEN /\ IsPanic(outcome)
                    /\ outcome.err =
                         [kind |-> "IndexOutOfBounds",
                          index |-> (CHOOSE k \in unlabelled :
                                       \A h \in unlabelled : k <= h) - 1,
                          len |-> Len(field_labels.val)]
                    /\ pos = size
               ELSE /\ outcome =
                         Err([kind |-> "InvalidFFCode", text |-> field_format[first]])
                    /\ pos = size

\* C6 witness: a setup error returned after the reader moved.
C6_Witness ==
  /\ pc = "done"
  /\ ~outcome.ok
  /\ outcome.err.kind = "InvalidFFCode"
  /\ pos > 0

\* C7 as stated: a text-decoding error is returned only when a field window
\* of one of the declared rows 1..R is not text; the padding never matters.
C7_PaddingNeverMatters ==
  (pc = "done" /\ ~outcome.ok /\ outcome.err.kind = "Utf8Error") =>
    \E i \in 1..rows_in_file : SplitFails(i)

\* C8 as stated: the table is built with size rows_in_file.
C8_PreSized ==
  tbl.some => tbl.val.size = rows_in_file

\* C8 amended: the table is built with the number of 2880-byte blocks of the
\* table region as its size, and keeps it while rows are appended.
C8_SizedInBlocks ==
  tbl.some =>
    tbl.val.size = (rows_in_file * chars_in_row + BLOCK_SIZE - 1) \div BLOCK_SIZE

\* C8 witness: a table of three rows that fit in two blocks was filled.
C8_Witness ==
  /\ pc = "done"
  /\ outcome.ok
  /\ rows_in_file = 3
  /\ outcome.val.tbl.size = 2

\* Rows are in the table only once every task of both parallel stages has
\* finished, and a row error or a panic of a task leaves the table empty.
C9_Inv ==
  /\ RowsAppended > 0 =>
       /\ pc \in {"fill", "done", "encoded"}
       /\ tasks = {}
       /\ \A i \in 1..Len(fmtd_rows_err) : ~IsPending(fmtd_rows_err[i])
       /\ \A i \in 1..Len(split_rows_err) : ~IsPending(split_rows_err[i])
  /\ RowErrorReturned => RowsAppended = 0
  /\ (pc = "done" /\ IsPanic(outcome)) => RowsAppended = 0

\* C9: C9_Inv holds throughout, and the number of rows in the table changes
\* only by a step of the sequential loop, which adds exactly one row.
C9_AppendAfterJoin ==
  /\ []C9_Inv
  /\ [][RowsAppended' # RowsAppended =>
          (pc = "fill" /\ pc' = "fill" /\ RowsAppended' = RowsAppended + 1)]_vars

\* C9 witness: one row converted, another failed, and nothing was appended.
C9_Witness ==
  /\ RowErrorReturned
  /\ outcome.err.kind = "ParseError"
  /\ \E i \in 1..Len(fmtd_rows_err) : fmtd_rows_err[i].ok
  /\ tbl.some
  /\ RowsAppended = 0

\* C10 as stated (for padding that is text): the error returned is the error
\* of the lowest declared row that fails, be it in text decoding or conversion.
C10_Original ==
  (RowErrorReturned /\ \A i \in (rows_in_file + 1)..FileChunks : ~SplitFails(i)) =>
    \E i \in 1..rows_in_file :
      /\ RowFails(i)
      /\ \A j \in 1..(i - 1) : ~RowFails(j)
      /\ outcome.err = RowErr(i)

\* C10 amended: once the table is set up, if splitting any chunk of the
\* buffer, padding included, stops at a field that leaves the row, decode_tbl
\* panics and returns no error.  When a row error is returned no chunk did;
\* then, if any chunk fails text decoding, the error returned is that of the
\* lowest such chunk; otherwise it is the conversion error of the lowest
\* declared row that fails to convert.
C10_FirstErrorPerStage ==
  /\ (pc = "done" /\ tbl.some /\ \E i \in 1..FileChunks : SplitPanics(i)) =>
       /\ IsPanic(outcome)
       /\ \E i \in 1..FileChunks : SplitPanics(i) /\ outcome = split_rows_err[i]
  /\ RowErrorReturned =>
       /\ \A i \in 1..FileChunks : ~SplitPanics(i)
       /\ IF \E i \in 1..FileChunks : SplitFails(i)
            THEN \E i \in 1..FileChunks :
                   /\ SplitFails(i)
                   /\ \A j \in 1..(i - 1) : ~SplitFails(j)
                   /\ outcome.err = SplitErr(i)
            ELSE \E i \in 1..rows_in_file :
                   /\ ConvFails(i)
                   /\ \A j \in 1..(i - 1) : ~ConvFails(j)
                   /\ outcome.err = ConvErr(i)

\* C10 witness: two declared rows fail with different errors.
C10_Witness ==
  /\ RowErrorReturned
  /\ \E i, j \in 1..rows_in_file :
       i < j /\ RowFails(i) /\ RowFails(j) /\ RowErr(i) # RowErr(j)

\* C4 as stated (for a table that holds rows): encode_tbl of a decoded table
\* completes and writes whole blocks that decode, under the same layout, to
\* the values of the table.
C4_RoundTrip ==
  (pc = "encoded" /\ rows_in_file >= 1) =>
    /\ enc_outcome = "Ok"
    /\ BufLen(written) % BLOCK_SIZE = 0
    /\ BufLen(written) >= chars_in_row * rows_in_file
    /\ \A f \in Fields : \A i \in 1..rows_in_file :
         LET at == (i - 1) * chars_in_row + row_index_col_start[f]
             e == from_parts(Bytes(written, at, at + field_lengs[f]), fmts[f])
         IN  e.ok /\ e.val.val = outcome.val.tbl.cols[f].data[i]

\* C5: after the padding pass every column is as long as the longest column
\* of the table, keeps its rendered cells as a prefix and holds only empty
\* strings after them.
C5_PaddedToLongest ==
  enc_outcome # "NotCalled" =>
    LET orig == destroy(outcome.val.tbl)
    IN  /\ Len(cols) = Len(orig)
        /\ \A i \in 1..Len(orig) :
             /\ \A k \in 1..Len(orig) : Len(cols[i]) >= Len(orig[k])
             /\ \E k \in 1..Len(orig) : Len(cols[i]) = Len(orig[k])
             /\ \A j \in 1..Len(cols[i]) :
                  cols[i][j] = IF j <= Len(orig[i]) THEN orig[i][j] ELSE <<>>

\* C5 witness: a short column was padded beside a column of full length.
C5_Witness ==
  /\ enc_outcome # "NotCalled"
  /\ Len(outcome.val.tbl.cols[1].data) = 0
  /\ Len(outcome.val.tbl.cols[2].data) = 2
  /\ Len(outcome.val.tbl.cols[3].data) = 1
  /\ Len(cols[1]) = 2 /\ Len(cols[3]) = 2

\* Element type to variant and to Bitpix.
TypeVariant(ty) ==
  CASE ty = "u8" -> "ByteImg" [] ty = "i16" -> "I16Img" [] ty = "i32" -> "I32Img"
    [] ty = "i64" -> "I64Img" [] ty = "f32" -> "SpfImg" [] ty = "f64" -> "DpfImg"
TypeBitpix(ty) ==
  CASE ty = "u8" -> "Byte" [] ty = "i16" -> "Short" [] ty = "i32" -> "Int"
    [] ty = "i64" -> "Long" [] ty = "f32" -> "Spf" [] ty = "f64" -> "Dpf"

\* C3: an accessor of element type T returns the stored array exactly when
\* the stored variant is the one of T, and otherwise the type-mismatch error
\* of the stored variant's Bitpix and the Bitpix of T; the borrowing accessor
\* leaves the image, the consuming one takes it.
C3_Accessors ==
  call.ty # "none" =>
    /\ res = IF call.self.variant = TypeVariant(call.ty)
               THEN Ok(call.self.data)
               ELSE Err([kind |-> "WrongImgTypeErr", stored |-> bpx(call.self),
                         requested |-> TypeBitpix(call.ty)])
    /\ img = IF call.owned THEN Moved ELSE call.self

\* C3 witness: the i32 accessor refused a 32-bit float image.
C3_Witness ==
  /\ call.ty = "i32"
  /\ call.self.variant = "SpfImg"
  /\ ~res.ok
  /\ res.err.stored = "Spf"

====
